---- MODULE Spec2Model ----
(***************************************************************************)
(* Model of the skool-downloader progress-tracked download pipeline:       *)
(*   - ProgressTracker (src/state/progress-tracker.ts): the lesson ledger  *)
(*   - DownloadQueue   (src/downloader/download-queue.ts): the scheduler   *)
(*   - downloadCommand / resumeCommand (src/index.ts): the coordinator     *)
(*   - downloadResource / downloadFile: the direct-HTTP resource executor  *)
(*                                                                         *)
(* The specifications share the definitions:                               *)
(*   SpecLedger : a harness that calls the ProgressTracker API in any      *)
(*                order on a tracker constructed over any state file       *)
(*   SpecQueue  : a harness that enqueues items on one DownloadQueue and   *)
(*                then waits for all of them                               *)
(*   Spec       : whole processes (download / resume runs, crashes)        *)
(*   SpecManyRuns : as Spec, with more commands run one after the other    *)
(*   SpecOverlap : as Spec, with overlapping writes of the state file      *)
(*   SpecRoundTrip : a harness that persists a ledger and loads it into a  *)
(*                fresh tracker for the same course slug                   *)
(*   SpecHttp   : one downloadResource call against any server behaviour   *)
(***************************************************************************)
EXTENDS Integers, Sequences, FiniteSets, TLC

\* ------------------------------------------------------------------ bounds
LedgerIds == 2          \* lesson ids the ledger harness draws from
MaxCalls == 5           \* mark* calls the ledger harness makes on one tracker
QueueItems == 3         \* items the queue harness enqueues
NumLessons == 1         \* modules the crawl can discover
MaxRuns == 2            \* processes (download / resume commands) started
ManyRuns == 4           \* processes started where a record is to fail more than 3 times
MaxWrites == 1          \* writeFile calls in flight at once
OverlapWrites == 2      \* writeFile calls in flight at once where saves overlap
RoundTripLessons == 2   \* records of the ledgers the round-trip harness persists

\* ------------------------------------------------------- program constants
MaxAttempts == 3        \* getPendingLessons: failed && attempts < 3
DefaultConcurrency == 2 \* defaultConfig.concurrency

Unset == "unset"                      \* an absent / undefined optional field
ErrDownload == "Unknown error"        \* result.error || 'Unknown error'
ErrNoVideo == "No video found"        \* markSkipped reason of the coordinator
Statuses == {"pending", "downloading", "completed", "failed", "skipped"}

VARIABLES
    lessons,      \* this.state.lessons when it is an array
    lessonsOk,    \* FALSE when this.state.lessons is undefined (not an array)
    saveTimer,    \* this.saveTimeout is armed
    disk,         \* the state file: [kind, lessons]
    lastOp,       \* harness: the last ProgressTracker call [op, id, existed]
    raised,       \* harness: a ProgressTracker call raised a TypeError
    loaded,       \* return value of load(): "none" before the call
    pending,      \* result of the last getPendingLessons() call
    calls,        \* harness: number of mark* calls made so far
    proc,         \* the running command: "none", "download" or "resume"
    pc,           \* where the command's coordinator function is
    runs,         \* processes started so far
    conc,         \* config.concurrency of the running command
    modules,      \* downloadCommand: ids of course.modules, in crawl order
    idx,          \* index of the for-loop over modules / pending
    tasks,        \* the DownloadQueue's items in enqueue order: [id, st]
    execs,        \* history: downloadVideo invocations this process started, per lesson id
    writes,       \* fs.writeFile calls in flight: [by, snap]
    mix,          \* serializations competing for the file since its last truncation
    persisted,    \* history: [n, done] of the last save() that completed: the number of
                  \* records it wrote (-1: none yet) and the <<id, outputPath>> of the
                  \* records it wrote as completed
    mutated,      \* history: this run has changed the lesson list
    savedAtExit,  \* history: the finally-block save() of this run has completed
    atLoad,       \* history: id, status and attempts < 3 of each record as load() left them
    kept,         \* round-trip harness: the ledger of the tracker that was saved
    fetch,        \* the downloadResource call in progress: see NoFetch
    courseName    \* this.state.courseName

harnessVars == <<lastOp, raised, calls, kept>>
trackerVars == <<lessons, lessonsOk, saveTimer, disk, loaded, pending, courseName>>
pipeVars == <<proc, pc, runs, conc, modules, idx, tasks, execs, writes, mix,
              persisted, mutated, savedAtExit, atLoad>>
vars == <<lessons, lessonsOk, saveTimer, disk, lastOp, raised, loaded, pending, calls,
          proc, pc, runs, conc, modules, idx, tasks, execs, writes, mix,
          persisted, mutated, savedAtExit, atLoad, kept, fetch, courseName>>

\* ------------------------------------------------ resource-downloader data
MaxRedirects == 5       \* downloadFile(url, outputPath, followRedirects = 5)

\* a file name as path.extname sees it: '' when the name has no extension
NoName == [stem |-> "", ext |-> ""]
Extname(name) == name.ext

\* ExtractedLink: its type, whether new URL(link.url) parses, and the file name
\* that safeFilename(link.text) gives
NoLink == [type |-> "none", url |-> "none", text |-> NoName]
Links == [type : {"notion", "external"}, url : {"wellformed", "malformed"},
          text : {[stem |-> "Slides", ext |-> ""], [stem |-> "Slides_v1", ext |-> ".2"]}]

\* response.headers['content-disposition']: absent, without a filename parameter,
\* or naming a file; the last path segment of the requested URL; content-type
NoHeaders == [cd |-> [kind |-> "absent", name |-> NoName], seg |-> NoName,
              contentType |-> ""]
ContentDispositions ==
    {[kind |-> "absent", name |-> NoName],
     [kind |-> "bare", name |-> NoName],
     [kind |-> "named", name |-> [stem |-> "report", ext |-> ""]],
     [kind |-> "named", name |-> [stem |-> "report", ext |-> ".zip"]]}
Segments == {[stem |-> "download", ext |-> ""], [stem |-> "file", ext |-> ".pdf"]}
ContentTypes == {"text/html", "application/octet-stream"}
Headers == [cd : ContentDispositions, seg : Segments, contentType : ContentTypes]

\* response.statusCode and response.headers.location
StatusCodes == {200, 302, 401, 403, 404, 500}
Locations == {"none", "next"}

\* DownloadResult; outputPath is basePath plus the extension appended to it
NoPath == [base |-> NoName, ext |-> ""]
NoResult == [success |-> FALSE, skipped |-> FALSE, skipReason |-> Unset,
             error |-> Unset, outputPath |-> NoPath]

\* one downloadResource call: where the transfer of its latest downloadFile call
\* is, whether downloadResource has returned and with what, its link, the
\* followRedirects argument of the latest downloadFile call, the 3xx responses
\* with a Location received, the last response received before the call
\* returned, finalPath and the file at finalPath
NoFetch == [pc |-> "idle", returned |-> FALSE, link |-> NoLink, followRedirects |-> 0,
            redirects |-> 0, statusCode |-> 0, headers |-> NoHeaders,
            finalPath |-> NoPath, file |-> "absent", result |-> NoResult]

\* ------------------------------------------------------------ LessonState
\* interface LessonState; titles and indices only name output files
NewLesson(id) ==
    [id |-> id, status |-> "pending", attempts |-> 0,
     videoUrl |-> Unset, outputPath |-> Unset, error |-> Unset]

\* this.state.lessons.find((l) => l.id === id): index of the first match, 0 if none
FindIndex(ls, id) ==
    IF \E i \in 1..Len(ls) : ls[i].id = id
    THEN CHOOSE i \in 1..Len(ls) :
            ls[i].id = id /\ \A j \in 1..(i - 1) : ls[j].id # id
    ELSE 0

\* getLesson(id)?.attempts || 0
AttemptsOf(ls, id) ==
    IF FindIndex(ls, id) = 0 THEN 0 ELSE ls[FindIndex(ls, id)].attempts

\* addLesson written as an upsert: an existing record is overwritten by a fresh one
AddLesson_upsert(ls, id) ==
    IF FindIndex(ls, id) = 0 THEN Append(ls, NewLesson(id))
    ELSE [ls EXCEPT ![FindIndex(ls, id)] = NewLesson(id)]

\* addLesson: push {...lesson, status: 'pending', attempts: 0} unless the id exists
AddLesson(ls, id) ==
    IF FindIndex(ls, id) = 0 THEN Append(ls, NewLesson(id)) ELSE ls

\* updateLesson: Object.assign(lesson, updates) on the first record with that id
UpdateLesson(ls, id, updates) ==
    IF FindIndex(ls, id) = 0 THEN ls
    ELSE [ls EXCEPT ![FindIndex(ls, id)] =
            [f \in DOMAIN @ |-> IF f \in DOMAIN updates THEN updates[f] ELSE @[f]]]

MarkStarted(ls, id) ==
    UpdateLesson(ls, id, [status |-> "downloading", attempts |-> AttemptsOf(ls, id) + 1])

\* markCompleted that forgets to clear the error of an earlier failure
MarkCompleted_keepError(ls, id, outputPath) ==
    UpdateLesson(ls, id, [status |-> "completed", outputPath |-> outputPath])

MarkCompleted(ls, id, outputPath) ==
    UpdateLesson(ls, id, [status |-> "completed", outputPath |-> outputPath, error |-> Unset])

MarkFailed(ls, id, error) ==
    UpdateLesson(ls, id, [status |-> "failed", error |-> error])

\* markSkipped that counts the skip as an attempt
MarkSkipped_countsAttempt(ls, id, reason) ==
    UpdateLesson(ls, id, [status |-> "skipped", error |-> reason,
                          attempts |-> AttemptsOf(ls, id) + 1])

MarkSkipped(ls, id, reason) ==
    UpdateLesson(ls, id, [status |-> "skipped", error |-> reason])

\* the filter predicate with the cap off by one (attempts <= 3)
IsPendingLesson_offByOne(l) ==
    l.status = "pending" \/ (l.status = "failed" /\ l.attempts <= MaxAttempts)

\* a filter that also returns records left in the downloading state
IsPendingLesson_withDownloading(l) ==
    \/ l.status = "pending"
    \/ (l.status \in {"failed", "downloading"} /\ l.attempts < MaxAttempts)

\* a filter that lets every record through: resume would re-queue all lessons
IsPendingLesson_any(l) == TRUE

\* the filter predicate of getPendingLessons
IsPendingLesson(l) ==
    l.status = "pending" \/ (l.status = "failed" /\ l.attempts < MaxAttempts)

\* getPendingLessons: Array.prototype.filter keeps the array order
GetPendingLessons(ls) == SelectSeq(ls, IsPendingLesson)

\* scheduleSave() runs exactly when addLesson pushed / updateLesson found the record
ArmsOnAdd(ls, id) == FindIndex(ls, id) = 0
ArmsOnUpdate(ls, id) == FindIndex(ls, id) # 0

\* -------------------------------------------------------- the state file
\* kind: "absent"  no file
\*       "partial" a truncated serialization (writeFile opened, not finished)
\*       "garbage" not JSON at all
\*       "nolessons" JSON that is not a CourseState (no lessons array)
\*       "doc"     a complete JSON.stringify(this.state)
NoFile == [kind |-> "absent", lessons |-> <<>>, name |-> ""]

\* the optional fields of LessonState: undefined when Unset
OptionalFields == {"videoUrl", "outputPath", "error"}

\* a serializer with a key whitelist that misses the error field
StringifyLesson_dropError(l) ==
    [f \in (DOMAIN l \ OptionalFields) \cup {g \in {"videoUrl", "outputPath"} : l[g] # Unset}
        |-> l[f]]

\* JSON.stringify of one record: a key whose value is undefined is left out
StringifyLesson(l) ==
    [f \in (DOMAIN l \ OptionalFields) \cup {g \in OptionalFields : l[g] # Unset} |-> l[f]]

\* JSON.stringify(this.state, null, 2), the lessons array of it
Stringify(ls) == [i \in 1..Len(ls) |-> StringifyLesson(ls[i])]

\* JSON.parse of one record: a key the document lacks reads as undefined
ParseLesson(o) ==
    [f \in DOMAIN o \cup OptionalFields |-> IF f \in DOMAIN o THEN o[f] ELSE Unset]

\* JSON.parse(data), the lessons array of it
Parse(doc) == [i \in 1..Len(doc) |-> ParseLesson(doc[i])]

\* a complete document; its courseName field is filled in by Named
Doc(ls) == [kind |-> "doc", lessons |-> Stringify(ls), name |-> ""]

\* the courseName field of a serialization of a state whose courseName is name
Named(d, name) == IF d.kind = "doc" THEN [d EXCEPT !.name = name] ELSE d

\* no save() has completed yet
NoSave == [n |-> -1, done |-> {}]

\* the <<id, outputPath>> of the completed records of a ledger
CompletedIn(ls) ==
    {<<ls[i].id, ls[i].outputPath>> : i \in {k \in 1..Len(ls) : ls[k].status = "completed"}}

\* what a later process can know of a ledger it loaded: for each record its
\* id, its status and whether its attempts are under the cap
ViewOf(ls) ==
    [i \in 1..Len(ls) |->
        [id |-> ls[i].id, status |-> ls[i].status, under |-> ls[i].attempts < MaxAttempts]]
CorruptKinds == {"partial", "garbage", "nolessons"}

\* JSON.parse(data) throws on these
ParseThrows(d) == d.kind \in {"partial", "garbage"}

\* load(): [found, lessons, lessonsOk] from the current in-memory state and the file
Load(d, ls, ok) ==
    IF d.kind = "absent" \/ ParseThrows(d)
    THEN [found |-> FALSE, lessons |-> ls, ok |-> ok]
    ELSE IF d.kind = "nolessons"
    THEN [found |-> TRUE, lessons |-> <<>>, ok |-> FALSE]
    ELSE [found |-> TRUE, lessons |-> Parse(d.lessons), ok |-> TRUE]

\* load(): this.state.courseName afterwards; the whole state is replaced by what
\* JSON.parse returned
LoadName(d, name) == IF d.kind = "absent" \/ ParseThrows(d) THEN name ELSE d.name

\* ============================================================ SpecLedger
\* A harness holding one ProgressTracker: construct, load(), then any calls.
Ids == 1..LedgerIds
\* op: the method called (the mark* methods are calls of updateLesson);
\* id: the id passed to addLesson (0 for the other methods);
\* existed: the record with the given id was found
Called(op, id, existed) == [op |-> op, id |-> id, existed |-> existed]
NoOp == Called("none", 0, FALSE)

LInit ==
    /\ lessons = <<>>                 \* createEmptyState()
    /\ lessonsOk = TRUE
    /\ saveTimer = FALSE
    /\ disk \in {NoFile} \cup {[kind |-> k, lessons |-> <<>>, name |-> ""] : k \in CorruptKinds}
    /\ lastOp = NoOp
    /\ raised = FALSE
    /\ loaded = "none"
    /\ pending = <<>>
    /\ calls = 0
    /\ proc = "none" /\ pc = "none" /\ runs = 0 /\ conc = 0
    /\ modules = <<>> /\ idx = 0 /\ tasks = <<>>
    /\ execs = [i \in 1..NumLessons |-> 0]
    /\ writes = <<>> /\ mix = {}
    /\ persisted = NoSave /\ mutated = FALSE /\ savedAtExit = FALSE
    /\ atLoad = <<>> /\ kept = <<>>
    /\ fetch = NoFetch /\ courseName = ""

L_Load ==
    /\ loaded = "none"
    /\ LET r == Load(disk, lessons, lessonsOk) IN
        /\ lessons' = r.lessons
        /\ lessonsOk' = r.ok
        /\ loaded' = IF r.found THEN "true" ELSE "false"
    /\ courseName' = LoadName(disk, courseName)
    /\ lastOp' = Called("load", 0, FALSE)
    /\ UNCHANGED <<saveTimer, disk, raised, pending, calls>>
    /\ UNCHANGED <<pipeVars, kept, fetch>>

\* a call on a state without a lessons array: this.state.lessons.find raises
L_Raise(op, id) ==
    /\ ~lessonsOk
    /\ raised' = TRUE
    /\ lastOp' = Called(op, 0, FALSE)
    /\ pending' = <<>>
    /\ UNCHANGED <<lessons, lessonsOk, saveTimer, disk, loaded, calls>>
    /\ UNCHANGED <<pipeVars, kept, fetch, courseName>>

L_AddLesson(id) ==
    /\ loaded # "none" /\ ~raised
    /\ \/ L_Raise("addLesson", id)
       \/ /\ lessonsOk
          /\ lessons' = AddLesson(lessons, id)
          /\ saveTimer' = (saveTimer \/ ArmsOnAdd(lessons, id))
          /\ lastOp' = Called("addLesson", id, FindIndex(lessons, id) # 0)
          /\ pending' = <<>>
          /\ UNCHANGED <<lessonsOk, disk, raised, loaded, calls>>
          /\ UNCHANGED <<pipeVars, kept, fetch, courseName>>

L_Mark(op, id, new) ==
    /\ loaded # "none" /\ ~raised
    /\ calls < MaxCalls
    /\ \/ L_Raise(op, id)
       \/ /\ lessonsOk
          /\ calls' = calls + 1
          /\ lessons' = new
          /\ saveTimer' = (saveTimer \/ ArmsOnUpdate(lessons, id))
          /\ lastOp' = Called("updateLesson", 0, FindIndex(lessons, id) # 0)
          /\ pending' = <<>>
          /\ UNCHANGED <<lessonsOk, disk, raised, loaded>>
          /\ UNCHANGED <<pipeVars, kept, fetch, courseName>>

L_MarkStarted(id) == L_Mark("markStarted", id, MarkStarted(lessons, id))

L_MarkCompleted(id) ==
    L_Mark("markCompleted", id, MarkCompleted(lessons, id, "base"))

L_MarkFailed(id) == L_Mark("markFailed", id, MarkFailed(lessons, id, ErrDownload))

L_MarkSkipped(id) == L_Mark("markSkipped", id, MarkSkipped(lessons, id, ErrNoVideo))

L_GetPending ==
    /\ loaded # "none" /\ ~raised
    /\ \/ L_Raise("getPendingLessons", 0)
       \/ /\ lessonsOk
          /\ pending' = GetPendingLessons(lessons)
          /\ lastOp' = Called("getPendingLessons", 0, FALSE)
          /\ UNCHANGED <<lessons, lessonsOk, saveTimer, disk, raised, loaded, calls>>
          /\ UNCHANGED <<pipeVars, kept, fetch, courseName>>

LNext ==
    \/ L_Load
    \/ \E id \in Ids : L_AddLesson(id)
    \/ \E id \in Ids : L_MarkStarted(id)
    \/ \E id \in Ids : L_MarkCompleted(id)
    \/ \E id \in Ids : L_MarkFailed(id)
    \/ \E id \in Ids : L_MarkSkipped(id)
    \/ L_GetPending

SpecLedger == LInit /\ [][LNext]_vars

LTypeOK ==
    /\ lessonsOk \in BOOLEAN
    /\ \A i \in 1..Len(lessons) : lessons[i].status \in Statuses

\* ================================================================== Spec
\* Whole processes: a download or resume command runs to its end or is
\* killed; the next command starts a new process over the same state file.
PipeIds == 1..NumLessons
Concurrencies == 1..DefaultConcurrency     \* --concurrency <n>
IsCompleted(ls, id) == FindIndex(ls, id) # 0 /\ ls[FindIndex(ls, id)].status = "completed"
VideoUrlOf(ls, id) == IF FindIndex(ls, id) = 0 THEN Unset ELSE ls[FindIndex(ls, id)].videoUrl

\* ------------------------------------------------------ DownloadQueue
\* st: "queued"    waiting in the PQueue
\*     "ensureDir" processDownload has called markStarted and awaits ensureDir
\*     "executing" downloadVideo is in flight
\*     "completed" / "failed"  processDownload returned after that mark
\*     "threw"     processDownload rejected (ensureDir raised)
Running == {"ensureDir", "executing"}
RunningCount(ts) == Cardinality({i \in 1..Len(ts) : ts[i].st \in Running})
QueueIdle(ts) == \A i \in 1..Len(ts) : ts[i].st \notin (Running \cup {"queued"})

\* a queue built without the concurrency option: new PQueue()
CanStart_noLimit(ts, n) == TRUE

\* new PQueue({ concurrency }): a job starts only while fewer than n are running
CanStart(ts, n) == RunningCount(ts) < n

\* a queue that hands out the newest waiting job first
FirstQueued_newest(ts) ==
    IF \E i \in 1..Len(ts) : ts[i].st = "queued"
    THEN CHOOSE i \in 1..Len(ts) :
            ts[i].st = "queued" /\ \A j \in (i + 1)..Len(ts) : ts[j].st # "queued"
    ELSE 0

\* the oldest waiting job: PQueue keeps jobs of equal priority in insertion order
FirstQueued(ts) ==
    IF \E i \in 1..Len(ts) : ts[i].st = "queued"
    THEN CHOOSE i \in 1..Len(ts) :
            ts[i].st = "queued" /\ \A j \in 1..(i - 1) : ts[j].st # "queued"
    ELSE 0

\* PQueue starts the oldest waiting job if a slot is free; the job runs
\* processDownload up to its first await: markStarted(lesson.id)
TryToStartAnother(ts, ls, n) ==
    IF FirstQueued(ts) # 0 /\ CanStart(ts, n)
    THEN [tasks |-> [ts EXCEPT ![FirstQueued(ts)].st = "ensureDir"],
          lessons |-> MarkStarted(ls, ts[FirstQueued(ts)].id),
          started |-> TRUE]
    ELSE [tasks |-> ts, lessons |-> ls, started |-> FALSE]

\* DownloadQueue.add: this.queue.add(() => processDownload(download))
QueueAdd(ts, ls, n, id) == TryToStartAnother(Append(ts, [id |-> id, st |-> "queued"]), ls, n)

\* result.outputFile || outputPath
CompletedPath(outputFile) == IF outputFile = Unset THEN "base" ELSE outputFile

\* processDownload: ensureDir resolved, downloadVideo(options, ...) is called
EnsureDirOk(i) ==
    /\ proc # "none"
    /\ i \in 1..Len(tasks) /\ tasks[i].st = "ensureDir"
    /\ tasks' = [tasks EXCEPT ![i].st = "executing"]
    /\ execs' = [execs EXCEPT ![tasks[i].id] = @ + 1]
    /\ UNCHANGED <<lessons, lessonsOk, saveTimer, disk, loaded, pending, proc, pc, runs,
                   conc, modules, idx, writes, mix, persisted, mutated, savedAtExit>>
    /\ UNCHANGED <<harnessVars, atLoad, fetch, courseName>>

\* processDownload: ensureDir raised (mkdir failed); nothing catches it, the
\* job's promise rejects and PQueue goes on with the next job
EnsureDirThrows(i) ==
    /\ proc # "none"
    /\ i \in 1..Len(tasks) /\ tasks[i].st = "ensureDir"
    /\ LET r == TryToStartAnother([tasks EXCEPT ![i].st = "threw"], lessons, conc) IN
        /\ tasks' = r.tasks
        /\ lessons' = r.lessons
        /\ saveTimer' = (saveTimer \/ r.started)
    /\ UNCHANGED <<lessonsOk, disk, loaded, pending, proc, pc, runs, conc, modules, idx,
                   execs, writes, mix, persisted, mutated, savedAtExit>>
    /\ UNCHANGED <<harnessVars, atLoad, fetch, courseName>>

\* processDownload: downloadVideo resolved with result; markCompleted or
\* markFailed, then PQueue goes on with the next job
ExecDone(i, success, outputFile) ==
    /\ proc # "none"
    /\ i \in 1..Len(tasks) /\ tasks[i].st = "executing"
    /\ LET marked == IF success
                     THEN MarkCompleted(lessons, tasks[i].id, CompletedPath(outputFile))
                     ELSE MarkFailed(lessons, tasks[i].id, ErrDownload)
           r == TryToStartAnother(
                    [tasks EXCEPT ![i].st = IF success THEN "completed" ELSE "failed"],
                    marked, conc) IN
        /\ tasks' = r.tasks
        /\ lessons' = r.lessons
    /\ saveTimer' = TRUE
    /\ UNCHANGED <<lessonsOk, disk, loaded, pending, proc, pc, runs, conc, modules, idx,
                   execs, writes, mix, persisted, mutated, savedAtExit>>
    /\ UNCHANGED <<harnessVars, atLoad, fetch, courseName>>

\* ------------------------------------------------------------- save()
\* save(): fs.writeFile(statePath, JSON.stringify(this.state)) is called:
\* the file is opened with O_TRUNC and the serialization taken now is written
OpenWriteWithin(by, max) ==
    /\ Len(writes) < max
    /\ writes' = Append(writes, [by |-> by, snap |-> lessons, name |-> courseName])
    /\ mix' = {writes[i].snap : i \in 1..Len(writes)} \cup {lessons}
    /\ disk' = [kind |-> "partial", lessons |-> <<>>, name |-> ""]

OpenWrite(by) == OpenWriteWithin(by, MaxWrites)

RemoveAt(seq, i) == SubSeq(seq, 1, i - 1) \o SubSeq(seq, i + 1, Len(seq))

\* what the file holds once the last writer has closed it: one of the
\* serializations written since the last truncation, or, when different ones
\* raced, possibly bytes of both
FinalDocs(m) ==
    {Doc(sn) : sn \in m} \cup
    (IF Cardinality(m) > 1 THEN {[kind |-> "garbage", lessons |-> <<>>, name |-> ""]} ELSE {})

\* the writeFile call writes[i] resolves
CloseWrite(i) ==
    /\ writes' = RemoveAt(writes, i)
    /\ persisted' = [n |-> Len(writes[i].snap),
                      done |-> CompletedIn(writes[i].snap)]
    /\ IF Len(writes) = 1
       THEN disk' \in {Named(d, writes[i].name) : d \in FinalDocs(mix)} /\ mix' = {}
       ELSE UNCHANGED <<disk, mix>>

CoordWriteIndex ==
    IF \E i \in 1..Len(writes) : writes[i].by = "coord"
    THEN CHOOSE i \in 1..Len(writes) : writes[i].by = "coord"
    ELSE 0

SavePcs == {"save1", "save2", "save3"}

\* await tracker.save() of the coordinator: the write starts
CoordSaveOpenWithin(max) ==
    /\ proc # "none" /\ pc \in SavePcs /\ CoordWriteIndex = 0
    /\ OpenWriteWithin("coord", max)
    /\ UNCHANGED <<lessons, lessonsOk, saveTimer, loaded, pending, proc, pc, runs, conc,
                   modules, idx, tasks, execs, persisted, mutated, savedAtExit>>
    /\ UNCHANGED <<harnessVars, atLoad, fetch, courseName>>

CoordSaveOpen == CoordSaveOpenWithin(MaxWrites)

\* the for-loop over modules goes on, or is over (then: await tracker.save())
LoopPc(i, mods) == IF i > Len(mods) THEN "save2" ELSE "loop"

\* await tracker.save() of the coordinator returns
CoordSaveDone ==
    /\ proc # "none" /\ pc \in SavePcs /\ CoordWriteIndex # 0
    /\ CloseWrite(CoordWriteIndex)
    /\ pc' = CASE pc = "save1" -> LoopPc(idx, modules)
               [] pc = "save2" -> "wait"
               [] pc = "save3" -> "ended"
    /\ savedAtExit' = (pc = "save3")
    /\ UNCHANGED <<lessons, lessonsOk, saveTimer, loaded, pending, proc, runs, conc,
                   modules, idx, tasks, execs, mutated>>
    /\ UNCHANGED <<harnessVars, atLoad, fetch, courseName>>

\* scheduleSave's timer fires: setTimeout(() => this.save(), 1000)
TimerSaveOpenWithin(max) ==
    /\ proc # "none" /\ saveTimer
    /\ OpenWriteWithin("timer", max)
    /\ saveTimer' = FALSE
    /\ UNCHANGED <<lessons, lessonsOk, loaded, pending, proc, pc, runs, conc,
                   modules, idx, tasks, execs, persisted, mutated, savedAtExit>>
    /\ UNCHANGED <<harnessVars, atLoad, fetch, courseName>>

TimerSaveOpen == TimerSaveOpenWithin(MaxWrites)

TimerSaveDone(i) ==
    /\ proc # "none"
    /\ i \in 1..Len(writes) /\ writes[i].by = "timer"
    /\ CloseWrite(i)
    /\ UNCHANGED <<lessons, lessonsOk, saveTimer, loaded, pending, proc, pc, runs, conc,
                   modules, idx, tasks, execs, mutated, savedAtExit>>
    /\ UNCHANGED <<harnessVars, atLoad, fetch, courseName>>

\* ------------------------------------------------------ process life
\* the process is gone: its memory, timers, jobs and open writes with it
ProcessGone ==
    /\ proc' = "none" /\ pc' = "none" /\ conc' = 0
    /\ lessons' = <<>> /\ lessonsOk' = TRUE /\ saveTimer' = FALSE
    /\ loaded' = "none" /\ pending' = <<>>
    /\ modules' = <<>> /\ idx' = 0 /\ tasks' = <<>>
    /\ writes' = <<>> /\ mix' = {}
    /\ mutated' = FALSE /\ savedAtExit' = FALSE
    /\ execs' = [i \in DOMAIN execs |-> 0]
    /\ atLoad' = <<>> /\ courseName' = ""
    /\ UNCHANGED <<disk, runs, persisted>>
    /\ UNCHANGED <<harnessVars, fetch>>

\* a command is started: new ProgressTracker(stateDir, slug); the operator
\* starts at most max commands
StartRunWithin(cmd, n, max) ==
    /\ proc = "none" /\ runs < max
    /\ proc' = cmd /\ pc' = "start" /\ conc' = n /\ runs' = runs + 1
    /\ UNCHANGED <<lessons, lessonsOk, saveTimer, disk, loaded, pending, modules, idx,
                   tasks, execs, writes, mix, persisted, mutated, savedAtExit>>
    /\ UNCHANGED <<harnessVars, atLoad, fetch, courseName>>

StartRun(cmd, n) == StartRunWithin(cmd, n, MaxRuns)

\* the process is killed (crash, power loss, kill -9, unhandled rejection)
Crash ==
    /\ proc # "none"
    /\ ProcessGone

\* the command has returned and nothing keeps the event loop alive
ProcessExit ==
    /\ proc # "none" /\ pc = "ended"
    /\ QueueIdle(tasks) /\ ~saveTimer /\ writes = <<>>
    /\ ProcessGone

\* await tracker.load()
LoadState ==
    /\ proc # "none" /\ pc = "start"
    /\ LET r == Load(disk, lessons, lessonsOk) IN
        /\ lessons' = r.lessons
        /\ lessonsOk' = r.ok
        /\ loaded' = IF r.found THEN "true" ELSE "false"
        /\ atLoad' = ViewOf(r.lessons)
    /\ courseName' = LoadName(disk, courseName)
    /\ pc' = "loaded"
    /\ UNCHANGED <<saveTimer, disk, pending, proc, runs, conc, modules, idx, tasks, execs,
                   writes, mix, persisted, mutated, savedAtExit>>
    /\ UNCHANGED <<harnessVars, fetch>>

\* ------------------------------------------------------ downloadCommand
RECURSIVE SeedAll(_, _)
\* for (const mod of modules) tracker.addLesson({id: mod.id, ...})
SeedAll(ls, mods) ==
    IF mods = <<>> THEN ls ELSE SeedAll(AddLesson(ls, Head(mods)), Tail(mods))

\* ensureAuthenticated, exportNetscapeCookies or crawlCourseStructure raised
CrawlThrows ==
    /\ proc = "download" /\ pc = "loaded"
    /\ pc' = "close"
    /\ UNCHANGED <<lessons, lessonsOk, saveTimer, disk, loaded, pending, proc, runs, conc,
                   modules, idx, tasks, execs, writes, mix, persisted, mutated, savedAtExit>>
    /\ UNCHANGED <<harnessVars, atLoad, fetch, courseName>>

\* what crawlCourseStructure can return: the course's name with the modules it
\* found, or 'Unknown Course' with none when the page data cannot be parsed
CourseName == "Skool"
Discoveries ==
    {[name |-> CourseName, n |-> n] : n \in 0..NumLessons}
    \cup {[name |-> "Unknown Course", n |-> 0]}

\* crawlCourseStructure returned course; tracker.initialize(url, course.name);
\* with --dry-run return, else addLesson for every module and await tracker.save()
Crawl(course, dryRun) ==
    /\ proc = "download" /\ pc = "loaded"
    /\ courseName' = course.name
    /\ modules' = [i \in 1..course.n |-> i]
    /\ IF dryRun
       THEN /\ pc' = "close"
            /\ UNCHANGED <<lessons, saveTimer, idx, mutated>>
       ELSE /\ lessons' = SeedAll(lessons, modules')
            /\ saveTimer' = (saveTimer \/ lessons' # lessons)
            /\ mutated' = (lessons' # lessons)
            /\ idx' = 1
            /\ pc' = "save1"
    /\ UNCHANGED <<lessonsOk, disk, loaded, pending, proc, runs, conc, tasks, execs,
                   writes, mix, persisted, savedAtExit>>
    /\ UNCHANGED <<harnessVars, atLoad, fetch>>

\* loop body, first part: the lesson is already completed and is passed over
VisitCompleted ==
    /\ proc = "download" /\ pc = "loop"
    /\ IsCompleted(lessons, modules[idx])
    /\ idx' = idx + 1
    /\ pc' = LoopPc(idx + 1, modules)
    /\ UNCHANGED <<lessons, lessonsOk, saveTimer, disk, loaded, pending, proc, runs, conc,
                   modules, tasks, execs, writes, mix, persisted, mutated, savedAtExit>>
    /\ UNCHANGED <<harnessVars, atLoad, fetch, courseName>>

\* loop body, first part: page.goto or extractModuleVideo raised
VisitThrows ==
    /\ proc = "download" /\ pc = "loop"
    /\ ~IsCompleted(lessons, modules[idx])
    /\ pc' = "close"
    /\ UNCHANGED <<lessons, lessonsOk, saveTimer, disk, loaded, pending, proc, runs, conc,
                   modules, idx, tasks, execs, writes, mix, persisted, mutated, savedAtExit>>
    /\ UNCHANGED <<harnessVars, atLoad, fetch, courseName>>

\* loop body, first part: extractModuleVideo returned videoInfo and
\* tracker.updateLesson(mod.id, {videoUrl: videoInfo.downloadUrl || undefined, ...})
Visit(downloadUrl) ==
    /\ proc = "download" /\ pc = "loop"
    /\ ~IsCompleted(lessons, modules[idx])
    /\ lessons' = UpdateLesson(lessons, modules[idx], [videoUrl |-> downloadUrl])
    /\ saveTimer' = (saveTimer \/ ArmsOnUpdate(lessons, modules[idx]))
    /\ pc' = "dispatch"
    /\ mutated' = TRUE
    /\ UNCHANGED <<lessonsOk, disk, loaded, pending, proc, runs, conc, modules, idx,
                   tasks, execs, writes, mix, persisted, savedAtExit>>
    /\ UNCHANGED <<harnessVars, atLoad, fetch, courseName>>

\* loop body, after the content extraction: no videoInfo.downloadUrl (the
\* value just stored in the record's videoUrl): markSkipped and continue;
\* else queue.add({lesson: tracker.getLesson(mod.id), ...})
Dispatch ==
    /\ proc = "download" /\ pc = "dispatch"
    /\ IF VideoUrlOf(lessons, modules[idx]) = Unset
       THEN /\ lessons' = MarkSkipped(lessons, modules[idx], ErrNoVideo)
            /\ saveTimer' = (saveTimer \/ ArmsOnUpdate(lessons, modules[idx]))
            /\ UNCHANGED tasks
       ELSE LET r == QueueAdd(tasks, lessons, conc, modules[idx]) IN
            /\ tasks' = r.tasks
            /\ lessons' = r.lessons
            /\ saveTimer' = (saveTimer \/ r.started)
    /\ idx' = idx + 1
    /\ pc' = LoopPc(idx + 1, modules)
    /\ UNCHANGED <<lessonsOk, disk, loaded, pending, proc, runs, conc, modules,
                   execs, writes, mix, persisted, mutated, savedAtExit>>
    /\ UNCHANGED <<harnessVars, atLoad, fetch, courseName>>

\* await queue.waitForAll() returns: queue.onIdle()
WaitForAll ==
    /\ proc # "none" /\ pc = "wait"
    /\ QueueIdle(tasks)
    /\ pc' = "report"
    /\ UNCHANGED <<lessons, lessonsOk, saveTimer, disk, loaded, pending, proc, runs, conc,
                   modules, idx, tasks, execs, writes, mix, persisted, mutated, savedAtExit>>
    /\ UNCHANGED <<harnessVars, atLoad, fetch, courseName>>

\* finally { await browser.close(); await tracker.save(); }: when close()
\* raises, the save is not reached and the command ends with that error
BrowserClose(ok) ==
    /\ proc # "none" /\ pc \in {"report", "close"}
    /\ pc' = IF ok THEN "save3" ELSE "ended"
    /\ UNCHANGED <<lessons, lessonsOk, saveTimer, disk, loaded, pending, proc, runs, conc,
                   modules, idx, tasks, execs, writes, mix, persisted, mutated, savedAtExit>>
    /\ UNCHANGED <<harnessVars, atLoad, fetch, courseName>>

\* -------------------------------------------------------- resumeCommand
\* if (!loaded || !hasExistingProgress()) return; pending = getPendingLessons();
\* if (pending.length === 0) return
ResumePending ==
    /\ proc = "resume" /\ pc = "loaded" /\ lessonsOk
    /\ IF loaded = "false" \/ Len(lessons) = 0
       THEN pc' = "ended" /\ UNCHANGED <<pending, idx>>
       ELSE /\ pending' = GetPendingLessons(lessons)
            /\ idx' = 1
            /\ pc' = IF pending' = <<>> THEN "ended" ELSE "auth"
    /\ UNCHANGED <<lessons, lessonsOk, saveTimer, disk, loaded, proc, runs, conc, modules,
                   tasks, execs, writes, mix, persisted, mutated, savedAtExit>>
    /\ UNCHANGED <<harnessVars, atLoad, fetch, courseName>>

\* try { ensureAuthenticated; exportNetscapeCookies; new DownloadQueue(...)
ResumeAuth(ok) ==
    /\ proc = "resume" /\ pc = "auth"
    /\ pc' = IF ok THEN "rloop" ELSE "close"
    /\ UNCHANGED <<lessons, lessonsOk, saveTimer, disk, loaded, pending, proc, runs, conc,
                   modules, idx, tasks, execs, writes, mix, persisted, mutated, savedAtExit>>
    /\ UNCHANGED <<harnessVars, atLoad, fetch, courseName>>

\* a resume loop that marks a lesson without a video URL skipped, as the download
\* loop does
ResumeStep_marksSkipped ==
    /\ proc = "resume" /\ pc = "rloop"
    /\ IF VideoUrlOf(lessons, pending[idx].id) = Unset
       THEN /\ lessons' = MarkSkipped(lessons, pending[idx].id, ErrNoVideo)
            /\ saveTimer' = TRUE
            /\ UNCHANGED <<tasks, mutated>>
       ELSE LET r == QueueAdd(tasks, lessons, conc, pending[idx].id) IN
            /\ tasks' = r.tasks
            /\ lessons' = r.lessons
            /\ saveTimer' = (saveTimer \/ r.started)
            /\ mutated' = TRUE
    /\ idx' = idx + 1
    /\ pc' = IF idx + 1 > Len(pending) THEN "wait" ELSE "rloop"
    /\ UNCHANGED <<lessonsOk, disk, loaded, pending, proc, runs, conc, modules,
                   execs, writes, mix, persisted, savedAtExit>>
    /\ UNCHANGED <<harnessVars, atLoad, fetch, courseName>>

\* for (const lesson of pending): no lesson.videoUrl: continue; else queue.add
\* (lesson is the ledger's own record object, read as it is now)
ResumeStep ==
    /\ proc = "resume" /\ pc = "rloop"
    /\ IF VideoUrlOf(lessons, pending[idx].id) = Unset
       THEN UNCHANGED <<lessons, saveTimer, tasks, mutated>>
       ELSE LET r == QueueAdd(tasks, lessons, conc, pending[idx].id) IN
            /\ tasks' = r.tasks
            /\ lessons' = r.lessons
            /\ saveTimer' = (saveTimer \/ r.started)
            /\ mutated' = TRUE
    /\ idx' = idx + 1
    /\ pc' = IF idx + 1 > Len(pending) THEN "wait" ELSE "rloop"
    /\ UNCHANGED <<lessonsOk, disk, loaded, pending, proc, runs, conc, modules,
                   execs, writes, mix, persisted, savedAtExit>>
    /\ UNCHANGED <<harnessVars, atLoad, fetch, courseName>>

\* ============================================================ SpecQueue
\* A harness holding one DownloadQueue over a tracker seeded with
\* QueueItems lessons: it enqueues them in ledger order, as the
\* coordinators do, and then calls waitForAll().
QInit ==
    /\ lessons = SeedAll(<<>>, [i \in 1..QueueItems |-> i])
    /\ lessonsOk = TRUE /\ saveTimer = TRUE
    /\ disk = NoFile
    /\ lastOp = NoOp /\ raised = FALSE /\ calls = 0
    /\ loaded = "false" /\ pending = <<>>
    /\ proc = "harness" /\ pc = "adding" /\ runs = 1
    /\ conc \in Concurrencies
    /\ modules = <<>> /\ idx = 0 /\ tasks = <<>>
    /\ execs = [i \in 1..QueueItems |-> 0]
    /\ writes = <<>> /\ mix = {}
    /\ persisted = NoSave /\ mutated = TRUE /\ savedAtExit = FALSE
    /\ atLoad = <<>> /\ kept = <<>>
    /\ fetch = NoFetch /\ courseName = ""

\* await queue.add({lesson: tracker.getLesson(id), ...}) for the next lesson
Q_Add ==
    /\ proc = "harness" /\ pc = "adding"
    /\ Len(tasks) < QueueItems
    /\ LET r == QueueAdd(tasks, lessons, conc, Len(tasks) + 1) IN
        /\ tasks' = r.tasks
        /\ lessons' = r.lessons
    /\ UNCHANGED <<lessonsOk, saveTimer, disk, loaded, pending, proc, pc, runs, conc,
                   modules, idx, execs, writes, mix, persisted, mutated, savedAtExit>>
    /\ UNCHANGED <<harnessVars, atLoad, fetch, courseName>>

\* the harness calls queue.waitForAll() and enqueues nothing more
Q_CallWaitForAll ==
    /\ proc = "harness" /\ pc = "adding"
    /\ pc' = "wait"
    /\ UNCHANGED <<lessons, lessonsOk, saveTimer, disk, loaded, pending, proc, runs, conc,
                   modules, idx, tasks, execs, writes, mix, persisted, mutated, savedAtExit>>
    /\ UNCHANGED <<harnessVars, atLoad, fetch, courseName>>

QNext ==
    \/ Q_Add
    \/ Q_CallWaitForAll
    \/ WaitForAll
    \/ \E i \in 1..QueueItems : EnsureDirOk(i)
    \/ \E i \in 1..QueueItems : EnsureDirThrows(i)
    \/ \E i \in 1..QueueItems, success \in BOOLEAN, f \in {Unset, "found"} :
            ExecDone(i, success, f)

SpecQueue == QInit /\ [][QNext]_vars

\* -------------------------------------------------------------- Spec
Init ==
    /\ lessons = <<>> /\ lessonsOk = TRUE /\ saveTimer = FALSE
    /\ disk = NoFile
    /\ lastOp = NoOp /\ raised = FALSE /\ calls = 0
    /\ loaded = "none" /\ pending = <<>>
    /\ proc = "none" /\ pc = "none" /\ runs = 0 /\ conc = 0
    /\ modules = <<>> /\ idx = 0 /\ tasks = <<>>
    /\ execs = [i \in PipeIds |-> 0]
    /\ writes = <<>> /\ mix = {}
    /\ persisted = NoSave /\ mutated = FALSE /\ savedAtExit = FALSE
    /\ atLoad = <<>> /\ kept = <<>>
    /\ fetch = NoFetch /\ courseName = ""

\* the steps of a running command in which at most maxWrites writeFile calls
\* are in flight at once
StepsWithin(maxWrites) ==
    \/ LoadState
    \/ CrawlThrows
    \/ \E course \in Discoveries, dryRun \in BOOLEAN : Crawl(course, dryRun)
    \/ VisitCompleted
    \/ VisitThrows
    \/ \E u \in {Unset, "url"} : Visit(u)
    \/ Dispatch
    \/ CoordSaveOpenWithin(maxWrites)
    \/ CoordSaveDone
    \/ WaitForAll
    \/ \E ok \in BOOLEAN : BrowserClose(ok)
    \/ ResumePending
    \/ \E ok \in BOOLEAN : ResumeAuth(ok)
    \/ ResumeStep
    \/ \E i \in 1..NumLessons : EnsureDirOk(i)
    \/ \E i \in 1..NumLessons : EnsureDirThrows(i)
    \/ \E i \in 1..NumLessons, success \in BOOLEAN, f \in {Unset, "found"} :
            ExecDone(i, success, f)
    \/ TimerSaveOpenWithin(maxWrites)
    \/ \E i \in 1..maxWrites : TimerSaveDone(i)
    \/ Crash
    \/ ProcessExit

Steps == StepsWithin(MaxWrites)

Next ==
    \/ \E cmd \in {"download", "resume"}, n \in Concurrencies : StartRun(cmd, n)
    \/ Steps

Spec == Init /\ [][Next]_vars

\* ------------------------------------------------------ SpecManyRuns
\* The same processes over the same state file, with enough commands started
\* one after the other for a record to be attempted more than three times.
NextManyRuns ==
    \/ \E cmd \in {"download", "resume"}, n \in Concurrencies :
            StartRunWithin(cmd, n, ManyRuns)
    \/ Steps

SpecManyRuns == Init /\ [][NextManyRuns]_vars

\* ------------------------------------------------------- SpecOverlap
\* The same processes, with a second writeFile call allowed to start while one
\* is in flight: a timer save next to an explicit save or to another timer save.
NextOverlap ==
    \/ \E cmd \in {"download", "resume"}, n \in Concurrencies : StartRun(cmd, n)
    \/ StepsWithin(OverlapWrites)

SpecOverlap == Init /\ [][NextOverlap]_vars

TypeOK ==
    /\ lessonsOk
    /\ \A i \in 1..Len(lessons) : lessons[i].status \in Statuses
    /\ Len(writes) <= MaxWrites

\* ======================================================== SpecRoundTrip
\* A harness that holds a tracker with a ledger, awaits save(), keeps that
\* ledger for comparison, and then constructs a new ProgressTracker for the
\* same slug (the same statePath) and awaits load().
\* The records the mark* calls leave behind, for one id:
RecordsOf(id) ==
    {[NewLesson(id) EXCEPT !.videoUrl = u] : u \in {Unset, "url"}}
    \cup {[NewLesson(id) EXCEPT !.status = "downloading", !.attempts = a,
                                !.videoUrl = "url", !.error = e] :
            a \in 1..MaxAttempts, e \in {Unset, ErrDownload}}
    \cup {[NewLesson(id) EXCEPT !.status = "completed", !.attempts = a,
                                !.videoUrl = "url", !.outputPath = "base"] :
            a \in 1..MaxAttempts}
    \cup {[NewLesson(id) EXCEPT !.status = "failed", !.attempts = a,
                                !.videoUrl = "url", !.error = ErrDownload] :
            a \in 1..MaxAttempts}
    \cup {[NewLesson(id) EXCEPT !.status = "skipped", !.error = ErrNoVideo]}

\* ledgers of n records with the ids 1..n in insertion order
LedgersOf(n) == {ls \in [1..n -> UNION {RecordsOf(id) : id \in 1..n}] :
                    \A i \in 1..n : ls[i].id = i}

RInit ==
    /\ \E n \in 0..RoundTripLessons : lessons \in LedgersOf(n)
    /\ lessonsOk = TRUE /\ saveTimer = FALSE
    /\ disk = NoFile
    /\ lastOp = NoOp /\ raised = FALSE /\ calls = 0
    /\ loaded = "none" /\ pending = <<>>
    /\ proc = "harness" /\ pc = "built" /\ runs = 1 /\ conc = 0
    /\ modules = <<>> /\ idx = 0 /\ tasks = <<>>
    /\ execs = [i \in 1..RoundTripLessons |-> 0]
    /\ writes = <<>> /\ mix = {}
    /\ persisted = NoSave /\ mutated = TRUE /\ savedAtExit = FALSE
    /\ atLoad = <<>> /\ kept = <<>>
    /\ fetch = NoFetch /\ courseName = CourseName

\* await tracker.save(): the write begins
R_SaveOpen ==
    /\ proc = "harness" /\ pc = "built"
    /\ OpenWrite("coord")
    /\ pc' = "saving"
    /\ lastOp' = Called("save", 0, FALSE)
    /\ UNCHANGED <<lessons, lessonsOk, saveTimer, loaded, pending, proc, runs, conc,
                   modules, idx, tasks, execs, persisted, mutated, savedAtExit, atLoad,
                   raised, calls, kept, fetch, courseName>>

\* await tracker.save() returns
R_SaveDone ==
    /\ proc = "harness" /\ pc = "saving"
    /\ CloseWrite(CoordWriteIndex)
    /\ pc' = "saved"
    /\ UNCHANGED <<lessons, lessonsOk, saveTimer, loaded, pending, proc, runs, conc,
                   modules, idx, tasks, execs, mutated, savedAtExit, atLoad>>
    /\ UNCHANGED <<harnessVars, fetch, courseName>>

\* a new process: new ProgressTracker(stateDir, slug) starts from createEmptyState()
R_NewTracker ==
    /\ proc = "harness" /\ pc = "saved"
    /\ kept' = lessons
    /\ lessons' = <<>> /\ lessonsOk' = TRUE /\ pending' = <<>> /\ courseName' = ""
    /\ pc' = "fresh"
    /\ lastOp' = NoOp
    /\ UNCHANGED <<saveTimer, disk, loaded, proc, runs, conc, modules, idx, tasks, execs,
                   writes, mix, persisted, mutated, savedAtExit, atLoad, raised, calls,
                   fetch>>

\* await tracker.load() in the new process
R_Load ==
    /\ proc = "harness" /\ pc = "fresh"
    /\ LET r == Load(disk, lessons, lessonsOk) IN
        /\ lessons' = r.lessons
        /\ lessonsOk' = r.ok
        /\ loaded' = IF r.found THEN "true" ELSE "false"
        /\ atLoad' = ViewOf(r.lessons)
    /\ courseName' = LoadName(disk, courseName)
    /\ pc' = "reloaded"
    /\ lastOp' = Called("load", 0, FALSE)
    /\ UNCHANGED <<saveTimer, disk, pending, proc, runs, conc, modules, idx, tasks, execs,
                   writes, mix, persisted, mutated, savedAtExit, raised, calls, kept,
                   fetch>>

\* tracker.getPendingLessons(), before the save or after the load
R_GetPending ==
    /\ proc = "harness" /\ pc \in {"built", "reloaded"}
    /\ pending' = GetPendingLessons(lessons)
    /\ lastOp' = Called("getPendingLessons", 0, FALSE)
    /\ UNCHANGED <<lessons, lessonsOk, saveTimer, disk, loaded, raised, calls>>
    /\ UNCHANGED <<pipeVars, kept, fetch, courseName>>

RNext ==
    \/ R_SaveOpen
    \/ R_SaveDone
    \/ R_NewTracker
    \/ R_Load
    \/ R_GetPending

SpecRoundTrip == RInit /\ [][RNext]_vars

\* =============================================================== claims
\* position of a returned record in the ledger (0 when it is not a ledger record)
PositionOf(r) ==
    IF \E k \in 1..Len(lessons) : lessons[k] = r
    THEN CHOOSE k \in 1..Len(lessons) : lessons[k] = r
    ELSE 0

\* C1: right after getPendingLessons() the result holds exactly the ledger's
\* records that are pending, or failed with attempts < 3, each once and in
\* ledger (insertion) order; no downloading, completed, skipped or
\* failed-with-attempts >= 3 record is in it.
C1_PendingExact ==
    lastOp.op = "getPendingLessons" =>
        /\ \A i \in 1..Len(pending) :
              /\ PositionOf(pending[i]) # 0
              /\ \/ pending[i].status = "pending"
                 \/ pending[i].status = "failed" /\ pending[i].attempts < 3
              /\ pending[i].status \notin {"downloading", "completed", "skipped"}
        /\ \A k \in 1..Len(lessons) :
              (\/ lessons[k].status = "pending"
               \/ lessons[k].status = "failed" /\ lessons[k].attempts < 3)
              => \E i \in 1..Len(pending) : pending[i] = lessons[k]
        /\ \A i, j \in 1..Len(pending) :
              i < j => PositionOf(pending[i]) < PositionOf(pending[j])

\* C1 witness: getPendingLessons() has returned from a ledger that mixes an
\* eligible record with a failed record at the attempt cap, and kept only the first
C1_Witness ==
    /\ lastOp.op = "getPendingLessons"
    /\ Len(pending) = 1
    /\ Len(lessons) = 2
    /\ \E k \in 1..Len(lessons) : lessons[k].status = "failed" /\ lessons[k].attempts = 3

IdsUnique(ls) == \A i, j \in 1..Len(ls) : ls[i].id = ls[j].id => i = j

\* C2: ids are unique in the ledger in every reachable state, and an addLesson
\* call whose id is already in the ledger changes neither the length of the
\* lesson list nor the status and attempts of any record.
C2_AddLessonIdempotent ==
    /\ [](lessonsOk => IdsUnique(lessons))
    /\ [][(/\ lastOp'.op = "addLesson"
           /\ \E i \in 1..Len(lessons) : lessons[i].id = lastOp'.id)
          => /\ Len(lessons') = Len(lessons)
             /\ \A i \in 1..Len(lessons) :
                   /\ lessons'[i].id = lessons[i].id
                   /\ lessons'[i].status = lessons[i].status
                   /\ lessons'[i].attempts = lessons[i].attempts]_vars

\* C2 witness: addLesson has just been called with the id of a record that
\* earlier mark* calls had moved away from pending / 0 attempts
C2_Witness ==
    /\ lastOp.op = "addLesson" /\ lastOp.existed
    /\ \E i \in 1..Len(lessons) :
          /\ lessons[i].id = lastOp.id
          /\ lessons[i].status = "completed"
          /\ lessons[i].attempts > 0

StatusOf(ls, id) == IF FindIndex(ls, id) = 0 THEN "absent" ELSE ls[FindIndex(ls, id)].status
CompletedWellFormed(ls) ==
    \A i \in 1..Len(ls) :
        ls[i].status = "completed" => ls[i].outputPath # "unset" /\ ls[i].error = "unset"

\* C3: in every reachable state, every completed record of the in-memory
\* ledger, and of any complete document in the state file, has outputPath
\* set and no error.
C3_CompletedHasPathNoError ==
    /\ CompletedWellFormed(lessons)
    /\ disk.kind = "doc" => CompletedWellFormed(Parse(disk.lessons))

\* C3 witness: a record that failed in an earlier run (attempts 2 now) has
\* been marked completed by the scheduler
C3_Witness ==
    /\ proc # "none"
    /\ \E i \in 1..Len(lessons) : lessons[i].status = "completed" /\ lessons[i].attempts = 2

\* C4 (as claimed): whenever no processDownload of a lesson sits between its
\* markStarted and its downloadVideo call, the record's attempts equals the
\* number of downloadVideo invocations started for that id.
C4_AttemptsEqualInvocations ==
    proc # "none" =>
        \A k \in 1..Len(lessons) :
            (\A i \in 1..Len(tasks) :
                ~(tasks[i].id = lessons[k].id /\ tasks[i].st = "ensureDir"))
            => lessons[k].attempts = execs[lessons[k].id]

\* C5: in every reachable state the number of processDownload calls started
\* and not yet finished is at most the queue's concurrency.
C5_ConcurrencyBound ==
    proc # "none" =>
        Cardinality({i \in 1..Len(tasks) : tasks[i].st \in {"ensureDir", "executing"}}) <= conc

\* C5 witness: the queue is full (as many jobs in flight as the concurrency
\* allows) while a further enqueued item waits
C5_Witness ==
    /\ proc # "none"
    /\ RunningCount(tasks) = conc
    /\ \E i \in 1..Len(tasks) : tasks[i].st = "queued"

\* C6 (as claimed): every item the scheduler has dequeued and finished with
\* has been marked completed or failed: its record is in one of these states.
C6_ExactlyOneTerminalMark ==
    \A i \in 1..Len(tasks) :
        tasks[i].st \notin {"queued", "ensureDir", "executing"}
        => /\ tasks[i].st \in {"completed", "failed"}
           /\ StatusOf(lessons, tasks[i].id) = tasks[i].st

\* C7 (as claimed): when waitForAll() has returned, every enqueued item's
\* record is completed or failed, after one executor invocation.
C7_WaitForAllTerminal ==
    pc = "report" =>
        \A i \in 1..Len(tasks) :
            /\ tasks[i].st \in {"completed", "failed"}
            /\ StatusOf(lessons, tasks[i].id) \in {"completed", "failed"}

\* C8 (as claimed): a command that has mutated the ledger never ends without
\* its final persist having completed.
C8_PersistOnEveryExit ==
    (proc # "none" /\ pc = "ended" /\ mutated) => savedAtExit

\* C9 (as claimed): once a persist of a ledger with records has completed,
\* every later load() finds a valid document (returns true) holding at
\* least those records, whatever crashes came in between.
C9_CrashKeepsPersisted ==
    (pc = "loaded" /\ persisted.n >= 1) => (loaded = "true" /\ Len(lessons) >= persisted.n)

\* C10 (as claimed): over every corrupt state file, load() returns false, no
\* later call raises, and the in-memory ledger right after load() is the
\* empty fresh state.
C10_CorruptLoadIsFresh ==
    (disk.kind \in CorruptKinds /\ loaded # "none") =>
        /\ loaded = "false"
        /\ ~raised
        /\ lessonsOk
        /\ lastOp.op = "load" => lessons = <<>>

\* the eligible records of a ledger, by the wording of the claims: pending,
\* or failed with fewer than 3 attempts
EligibleAt(ls) ==
    {i \in 1..Len(ls) :
        ls[i].status = "pending" \/ (ls[i].status = "failed" /\ ls[i].attempts < 3)}

\* C11: after save() and then load() into a fresh tracker for the same slug,
\* load() returned true and the ledger has the persisted records in the
\* persisted order, each with the same id, status, attempts, outputPath and
\* error; and getPendingLessons() on it returns exactly the eligible records
\* of the persisted ledger, in their order.
C11_RoundTrip ==
    (proc = "harness" /\ pc = "reloaded") =>
        /\ loaded = "true"
        /\ Len(lessons) = Len(kept)
        /\ \A i \in 1..Len(lessons) :
              /\ lessons[i].id = kept[i].id
              /\ lessons[i].status = kept[i].status
              /\ lessons[i].attempts = kept[i].attempts
              /\ lessons[i].outputPath = kept[i].outputPath
              /\ lessons[i].error = kept[i].error
        /\ lastOp.op = "getPendingLessons" =>
              /\ Len(pending) = Cardinality(EligibleAt(kept))
              /\ \A k \in 1..Len(pending) :
                    \E i \in EligibleAt(kept) :
                        /\ pending[k].id = kept[i].id
                        /\ Cardinality({j \in EligibleAt(kept) : j < i}) = k - 1

\* C11 witness: a ledger with a completed record and a record failed at
\* attempts = 1 has been persisted and reloaded, and getPendingLessons() on
\* the reloaded ledger returned the failed one
C11_Witness ==
    /\ proc = "harness" /\ pc = "reloaded"
    /\ lastOp.op = "getPendingLessons"
    /\ Len(pending) = 1 /\ pending[1].status = "failed" /\ pending[1].attempts = 1
    /\ pending[1].error = "Unknown error"
    /\ \E i \in 1..Len(lessons) : lessons[i].status = "completed"

\* the ledger load() left held a record with this id and one of these statuses
LoadedWith(id, sts) == \E k \in 1..Len(atLoad) : atLoad[k].id = id /\ atLoad[k].status \in sts

\* the ledger load() left held this id as pending, or as failed with attempts < 3
LoadedEligible(id) ==
    \E k \in 1..Len(atLoad) :
        /\ atLoad[k].id = id
        /\ atLoad[k].status = "pending" \/ (atLoad[k].status = "failed" /\ atLoad[k].under)

C13_CompletedNeverRedone ==
    /\ [](/\ pc = "loaded" =>
               \A d \in persisted.done :
                   \E k \in 1..Len(lessons) :
                       /\ lessons[k].id = d[1]
                       /\ lessons[k].status = "completed"
                       /\ lessons[k].outputPath = d[2]
          /\ \A i, j \in 1..Len(tasks) :
                (tasks[i].st = "executing" /\ tasks[j].st = "executing"
                 /\ tasks[i].id = tasks[j].id) => i = j)
    /\ [][\A k \in 1..Len(lessons) :
            (lessons[k].status = "completed" /\ proc # "none" /\ proc' = proc) =>
                /\ k <= Len(lessons')
                /\ lessons'[k].id = lessons[k].id
                /\ lessons'[k].status = "completed"
                /\ lessons'[k].outputPath = lessons[k].outputPath
                /\ execs'[lessons[k].id] = execs[lessons[k].id]]_vars

\* C14 (as claimed): a record that is skipped is not extracted again by the
\* download loop; and a record a run loaded as skipped stays skipped, is not
\* enqueued and has no downloadVideo invocation in that run.
C14_SkippedIsTerminal ==
    proc # "none" =>
        /\ pc = "dispatch" => StatusOf(lessons, modules[idx]) # "skipped"
        /\ \A k \in 1..Len(atLoad) :
              atLoad[k].status = "skipped" =>
                /\ StatusOf(lessons, atLoad[k].id) = "skipped"
                /\ \A i \in 1..Len(tasks) : tasks[i].id # atLoad[k].id
                /\ execs[atLoad[k].id] = 0

\* C15 (as claimed): in every reachable state of any sequence of download
\* and resume runs, attempts <= 3 for every record of the in-memory ledger
\* and of a complete state file.
C15_AttemptCapAcrossRuns ==
    /\ \A k \in 1..Len(lessons) : lessons[k].attempts <= 3
    /\ disk.kind = "doc" => \A k \in 1..Len(disk.lessons) : disk.lessons[k].attempts <= 3

\* --------------------------------------------------- resource-downloader
\* getFilenameFromUrl(url, contentDisposition): the Content-Disposition filename
\* whenever the header names one, else the last URL path segment if it has a '.'
GetFilenameFromUrl(seg, cd) ==
    IF cd.kind = "named" THEN cd.name
    ELSE IF seg.ext # "" THEN seg
    ELSE NoName

\* the entries of mimeToExt the modelled content types can hit
MimeToExt == [m \in {"application/pdf", "application/zip", "text/html"} |->
                CASE m = "application/pdf" -> ".pdf"
                  [] m = "application/zip" -> ".zip"
                  [] m = "text/html" -> ".html"]

\* getExtensionFromContentType(contentType)
GetExtensionFromContentType(contentType) ==
    IF contentType \in DOMAIN MimeToExt THEN MimeToExt[contentType] ELSE ""

\* finalPath of downloadFile: outputPath, with an extension appended only when
\* outputPath has none
FinalPathOf(outputPath, h) ==
    IF Extname(outputPath) # "" THEN [base |-> outputPath, ext |-> ""]
    ELSE LET urlFilename == GetFilenameFromUrl(h.seg, h.cd) IN
         IF urlFilename # NoName /\ Extname(urlFilename) # ""
         THEN [base |-> outputPath, ext |-> Extname(urlFilename)]
         ELSE [base |-> outputPath, ext |-> GetExtensionFromContentType(h.contentType)]

\* the value downloadFile resolves with
FileResult(success, finalPath, error, requiresAuth) ==
    [success |-> success, finalPath |-> finalPath, error |-> error,
     requiresAuth |-> requiresAuth]

\* variant: the requiresAuth branch is missing
ToDownloadResult_noAuthBranch(r) ==
    IF ~r.success
    THEN [NoResult EXCEPT !.error = r.error]
    ELSE [NoResult EXCEPT !.success = TRUE, !.outputPath = r.finalPath]

\* downloadResource after `await downloadFile(...)`: the DownloadResult it returns
ToDownloadResult(r) ==
    IF r.requiresAuth
    THEN [NoResult EXCEPT !.skipped = TRUE, !.skipReason = "Requires authentication"]
    ELSE IF ~r.success
    THEN [NoResult EXCEPT !.error = r.error]
    ELSE [NoResult EXCEPT !.success = TRUE, !.outputPath = r.finalPath]

\* resolve(r) in the call f: the first resolve settles downloadFile's promise and
\* downloadResource returns; a later one changes nothing
Resolve(f, r) ==
    IF f.returned THEN f
    ELSE [f EXCEPT !.returned = TRUE, !.result = ToDownloadResult(r)]

HInit ==
    /\ lessons = <<>> /\ lessonsOk = TRUE /\ saveTimer = FALSE
    /\ disk = NoFile
    /\ lastOp = NoOp /\ raised = FALSE /\ calls = 0
    /\ loaded = "none" /\ pending = <<>>
    /\ proc = "none" /\ pc = "none" /\ runs = 0 /\ conc = 0
    /\ modules = <<>> /\ idx = 0 /\ tasks = <<>>
    /\ execs = [i \in PipeIds |-> 0]
    /\ writes = <<>> /\ mix = {}
    /\ persisted = NoSave /\ mutated = FALSE /\ savedAtExit = FALSE
    /\ atLoad = <<>> /\ kept = <<>>
    /\ fetch = NoFetch /\ courseName = ""

\* downloadResource(link, outputDir, index) up to the first request: a notion link
\* returns skipped; new URL(url) in the promise executor throws on a malformed
\* URL, which rejects downloadFile and, uncaught, downloadResource
DownloadResource(link) ==
    /\ fetch.pc = "idle"
    /\ IF link.type = "notion"
       THEN fetch' = [fetch EXCEPT !.pc = "closed", !.returned = TRUE, !.link = link,
                        !.result = [NoResult EXCEPT !.skipped = TRUE,
                            !.skipReason = "Notion pages cannot be directly downloaded"]]
       ELSE IF link.url = "malformed"
       THEN fetch' = [fetch EXCEPT !.pc = "rejected", !.link = link]
       ELSE fetch' = [fetch EXCEPT !.pc = "request", !.link = link,
                        !.followRedirects = MaxRedirects]
    /\ UNCHANGED <<trackerVars, harnessVars, pipeVars>>

\* the response callback of protocol.get, up to its first await or resolve
OnResponse(statusCode, location, h) ==
    /\ fetch.pc = "request"
    /\ LET counted == [fetch EXCEPT !.redirects =
                            @ + (IF /\ statusCode >= 300 /\ statusCode < 400
                                    /\ location # "none"
                                 THEN 1 ELSE 0)]
           seen == IF fetch.returned THEN counted
                   ELSE [counted EXCEPT !.statusCode = statusCode, !.headers = h] IN
       IF /\ statusCode >= 300 /\ statusCode < 400
          /\ location # "none" /\ fetch.followRedirects > 0
       THEN \* downloadFile(absoluteUrl, outputPath, followRedirects - 1)
            fetch' = [seen EXCEPT !.followRedirects = @ - 1]
       ELSE IF statusCode = 401 \/ statusCode = 403
       THEN fetch' = Resolve([seen EXCEPT !.pc = "closed"],
                        FileResult(FALSE, NoPath, "Authentication required", TRUE))
       ELSE IF statusCode = 404
       THEN fetch' = Resolve([seen EXCEPT !.pc = "closed"],
                        FileResult(FALSE, NoPath, "File not found (404)", FALSE))
       ELSE IF statusCode >= 400
       THEN fetch' = Resolve([seen EXCEPT !.pc = "closed"],
                        FileResult(FALSE, NoPath, "HTTP 500", FALSE))
       ELSE fetch' = [seen EXCEPT !.pc = "opening",
                        !.finalPath = FinalPathOf(fetch.link.text, h)]
    /\ UNCHANGED <<trackerVars, harnessVars, pipeVars>>

\* request.on('error'): the connection fails before a response arrives
OnRequestError ==
    /\ fetch.pc = "request"
    /\ fetch' = Resolve([fetch EXCEPT !.pc = "closed"],
                    FileResult(FALSE, NoPath, "ECONNRESET", FALSE))
    /\ UNCHANGED <<trackerVars, harnessVars, pipeVars>>

\* await ensureDir(...); await fs.open(finalPath, 'w'); response.pipe(writeStream)
OpenFinalPath ==
    /\ fetch.pc = "opening"
    /\ fetch' = [fetch EXCEPT !.pc = "piping", !.file = "partial"]
    /\ UNCHANGED <<trackerVars, harnessVars, pipeVars>>

\* ensureDir or fs.open rejects inside the async response callback: nothing
\* catches it and nothing resolves the promise; the runtime either ends the
\* process on the unhandled rejection or leaves the request to its timeout
OpenRejects ==
    /\ fetch.pc = "opening"
    /\ \E next \in {"unhandled", "stalled"} : fetch' = [fetch EXCEPT !.pc = next]
    /\ UNCHANGED <<trackerVars, harnessVars, pipeVars>>

\* writeStream.on('finish')
OnFinish ==
    /\ fetch.pc = "piping"
    /\ fetch' = Resolve([fetch EXCEPT !.pc = "closed", !.file = "complete"],
                    FileResult(TRUE, fetch.finalPath, Unset, FALSE))
    /\ UNCHANGED <<trackerVars, harnessVars, pipeVars>>

\* writeStream.on('error'): the handle is closed, the file stays where it is
OnWriteError ==
    /\ fetch.pc = "piping"
    /\ fetch' = Resolve([fetch EXCEPT !.pc = "closed"],
                    FileResult(FALSE, NoPath, "ENOSPC", FALSE))
    /\ UNCHANGED <<trackerVars, harnessVars, pipeVars>>

\* request.setTimeout(30000, ...) of the request in progress: request.destroy()
\* ends the transfer and a failure is resolved; what was written to finalPath stays
OnTimeout ==
    /\ fetch.pc \in {"request", "piping", "stalled"}
    /\ fetch' = Resolve([fetch EXCEPT !.pc = "closed"],
                    FileResult(FALSE, NoPath, "Download timeout", FALSE))
    /\ UNCHANGED <<trackerVars, harnessVars, pipeVars>>

\* request.setTimeout(30000, ...) of an earlier hop: its response was never
\* consumed, so where the server keeps that connection open its socket idles and
\* the timer fires. request.destroy() destroys that hop's request only; the
\* resolve settles the promise chain downloadResource awaits, while the
\* downloadFile call of the later hop goes on
OnEarlierHopTimeout ==
    /\ fetch.followRedirects < MaxRedirects
    /\ fetch.pc \in {"request", "opening", "piping", "stalled"}
    /\ ~fetch.returned
    /\ fetch' = Resolve(fetch, FileResult(FALSE, NoPath, "Download timeout", FALSE))
    /\ UNCHANGED <<trackerVars, harnessVars, pipeVars>>

HNext ==
    \/ \E link \in Links : DownloadResource(link)
    \/ \E statusCode \in StatusCodes, location \in Locations, h \in Headers :
            OnResponse(statusCode, location, h)
    \/ OnRequestError
    \/ OpenFinalPath
    \/ OpenRejects
    \/ OnFinish
    \/ OnWriteError
    \/ OnTimeout
    \/ OnEarlierHopTimeout

SpecHttp == HInit /\ [][HNext]_vars

\* --------------------------------------------------------------- C16
\* C16: the direct-HTTP executor follows at most 5 redirects: once a sixth
\* redirect response has arrived (a loop, or a chain longer than 5 hops), the call
\* writes nothing to the output path and does not return success.
C16_RedirectBound ==
    fetch.redirects > MaxRedirects =>
        /\ fetch.file = "absent"
        /\ fetch.pc \notin {"opening", "piping"}
        /\ fetch.returned => ~fetch.result.success /\ fetch.result.error # Unset

\* --------------------------------------------------------------- C17
\* C17 as stated: a resource fetch whose final response is 401 or 403 returns
\* skipped with the reason "Authentication required" (success false, no error
\* field); every other final status >= 400, 404 included, returns failed and not
\* skipped.
C17_AuthIsSkipped ==
    (fetch.returned /\ fetch.statusCode >= 400) =>
        IF fetch.statusCode \in {401, 403}
        THEN /\ ~fetch.result.success /\ fetch.result.skipped
             /\ fetch.result.skipReason = "Authentication required"
             /\ fetch.result.error = Unset
        ELSE /\ ~fetch.result.success /\ ~fetch.result.skipped
             /\ fetch.result.error # Unset

\* C17 amended: the same classification, with the reason downloadResource
\* returns, "Requires authentication".
C17_AuthIsSkippedAmended ==
    (fetch.returned /\ fetch.statusCode >= 400) =>
        IF fetch.statusCode \in {401, 403}
        THEN /\ ~fetch.result.success /\ fetch.result.skipped
             /\ fetch.result.skipReason = "Requires authentication"
             /\ fetch.result.error = Unset
        ELSE /\ ~fetch.result.success /\ ~fetch.result.skipped
             /\ fetch.result.skipReason = Unset
             /\ fetch.result.error # Unset

\* a fetch has returned on a 403 that arrived after a redirect
C17_Witness ==
    /\ fetch.returned /\ fetch.statusCode = 403 /\ fetch.redirects > 0
    /\ fetch.result.skipped

\* --------------------------------------------------------------- C18
\* the extension the priority order names: Content-Disposition filename, else
\* last URL path segment, else MIME table, else none
ByPriority(h) ==
    IF h.cd.kind = "named" /\ Extname(h.cd.name) # "" THEN Extname(h.cd.name)
    ELSE IF Extname(h.seg) # "" THEN Extname(h.seg)
    ELSE IF h.contentType \in DOMAIN MimeToExt THEN MimeToExt[h.contentType]
    ELSE ""

\* C18: for every combination of Content-Disposition, final URL path and
\* Content-Type, the extension given to a saved file whose name had none is the
\* Content-Disposition filename's, else the URL path segment's, else the MIME
\* table's, else none; a Content-Disposition filename without an extension falls
\* through to the URL path segment.
C18_ExtensionPriority ==
    (fetch.returned /\ fetch.result.success /\ Extname(fetch.link.text) = "") =>
        fetch.result.outputPath.ext = ByPriority(fetch.headers)

\* --------------------------------------------------------------- C19
\* C19: whenever the direct-HTTP executor reports failure (timeout, stream error),
\* no partially written file is at the final artifact path.
C19_NoPartialAtFinalPath ==
    (fetch.returned /\ ~fetch.result.success) => fetch.file = "absent"

\* --------------------------------------------------------------- C20
\* C20: no call of the resource executor raises across its interface: for every
\* input, a malformed URL and a failing ensureDir or fs.open included, the call
\* neither rejects nor faults outside its promise, and a call that returns
\* without success carries an error or a skip reason.
C20_NeverRaises ==
    /\ fetch.pc \notin {"rejected", "unhandled"}
    /\ (fetch.returned /\ ~fetch.result.success) =>
            (fetch.result.error # Unset \/ fetch.result.skipped)

\* --------------------------------------------------------------- C21
\* some record of the ledger is in the intermediate state
HasDownloading(ls) == \E k \in 1..Len(ls) : ls[k].status = "downloading"

\* C21: the markStarted / executor / terminal-mark sequence of an item is atomic
\* to every other component: no explicit save of the coordinator serializes a
\* record in the downloading state and the persisted document never holds one.
C21_SequenceIsAtomic ==
    /\ disk.kind = "doc" => ~HasDownloading(disk.lessons)
    /\ \A i \in 1..Len(writes) : writes[i].by = "coord" => ~HasDownloading(writes[i].snap)

\* --------------------------------------------------------------- C22
StatusOfId(ls, id) == IF FindIndex(ls, id) = 0 THEN Unset ELSE ls[FindIndex(ls, id)].status
ErrorOfId(ls, id) == IF FindIndex(ls, id) = 0 THEN Unset ELSE ls[FindIndex(ls, id)].error
HasTask(ts, id) == \E i \in 1..Len(ts) : ts[i].id = id

\* the modules the download loop of this run has dealt with and found no video for
NoTargetThisRun ==
    IF proc = "download"
    THEN {modules[j] : j \in {k \in 1..Len(modules) :
                                k < idx /\ VideoUrlOf(lessons, modules[k]) = Unset}}
    ELSE {}

\* C22: when the extraction of a lesson yields no target, the coordinator marks
\* the lesson skipped with the reason recorded and leaves its attempts as they
\* were; for the rest of the run the lesson is not in the queue and no executor
\* is invoked for it.
C22_NoTargetIsSkipped ==
    /\ [](\A id \in NoTargetThisRun :
            /\ StatusOfId(lessons, id) = "skipped"
            /\ ErrorOfId(lessons, id) = ErrNoVideo
            /\ ~HasTask(tasks, id)
            /\ execs[id] = 0)
    /\ [][(/\ proc = "download" /\ pc = "dispatch" /\ proc' = "download"
           /\ VideoUrlOf(lessons, modules[idx]) = Unset /\ pc' # "dispatch")
          => /\ AttemptsOf(lessons', modules[idx]) = AttemptsOf(lessons, modules[idx])
             /\ tasks' = tasks /\ execs' = execs]_vars

\* the loop of a download run is over and it found no video for some lesson
C22_Witness ==
    /\ NoTargetThisRun # {}
    /\ pc \in {"save2", "wait", "report"}

\* --------------------------------------------------------------- C23
\* C23: a per-item failure never aborts the run: once the download loop is on,
\* whatever happens to the lesson at hand (its extraction raising included), the
\* coordinator goes on inside the loop or past its end; a failed executor leaves
\* no waiting item behind a free slot.
C23_ItemFailureDoesNotAbort ==
    /\ [](proc # "none" /\ FirstQueued(tasks) # 0 => RunningCount(tasks) >= conc)
    /\ [][(proc = "download" /\ pc = "loop" /\ proc' = "download")
          => pc' \in {"loop", "dispatch", "save2"}]_vars

\* --------------------------------------------------------------- C24
\* C24: total discovery failure is fatal for the run: a download run that has
\* enumerated no lesson does not go on to seed, save, wait and report, and the
\* step in which discovery came back empty leaves the ledger's course name and
\* records and the queue as they were.
C24_DiscoveryFailureIsFatal ==
    /\ []((proc = "download" /\ pc \in {"save1", "loop", "dispatch", "save2", "wait", "report"})
            => modules # <<>>)
    /\ [][(/\ proc = "download" /\ pc = "loaded" /\ proc' = "download" /\ pc' # "loaded"
           /\ modules' = <<>>)
          => /\ courseName' = courseName /\ lessons' = lessons /\ tasks' = tasks
             /\ pc' = "close"]_vars

\* --------------------------------------------------------------- C25
\* C25: items begin execution in enqueue order: an item has been started
\* (markStarted called for it) only when every item enqueued before it has been
\* started; nothing orders the completions.
C25_StartInEnqueueOrder ==
    \A i \in 1..Len(tasks), j \in 1..Len(tasks) :
        (i < j /\ tasks[j].st # "queued") =>
            /\ tasks[i].st # "queued"
            /\ AttemptsOf(lessons, tasks[i].id) >= 1

\* an item has completed while one enqueued before it is still executing and
\* one enqueued after it has been started
C25_Witness ==
    /\ Len(tasks) = 3
    /\ tasks[1].st = "executing" /\ tasks[2].st = "completed"
    /\ tasks[3].st \in {"ensureDir", "executing"}

\* --------------------------------------------------------------- C26
TimeoutReported == fetch.returned /\ fetch.result.error = "Download timeout"

\* C26: every direct-HTTP fetch reaches exactly one outcome, and when that
\* outcome is the timeout the transfer has been aborted: no request or transfer
\* of the fetch is still in flight and the file at the destination changes no more.
C26_TimeoutAbortsTransfer ==
    /\ [](TimeoutReported => fetch.pc \notin {"request", "opening", "piping"})
    /\ [][fetch.returned => (fetch'.returned /\ fetch'.result = fetch.result)]_vars
    /\ [][TimeoutReported => fetch'.file = fetch.file]_vars

\* --------------------------------------------------------------- C27
\* the eligible records the resume loop of this run has passed over for want of
\* a cached video URL, as getPendingLessons returned them
PassedOver ==
    IF proc = "resume"
    THEN {pending[k] : k \in {j \in 1..Len(pending) :
                                j < idx /\ VideoUrlOf(lessons, pending[j].id) = Unset}}
    ELSE {}

\* C27: on a resume run an eligible record without a cached video URL is passed
\* over: it is not enqueued and not marked skipped, its status, attempts and error
\* stay as they were, and so getPendingLessons returns it again.
C27_ResumePassesOverNoUrl ==
    \A l \in PassedOver :
        /\ FindIndex(lessons, l.id) # 0
        /\ lessons[FindIndex(lessons, l.id)] = l
        /\ IsPendingLesson(lessons[FindIndex(lessons, l.id)])
        /\ ~HasTask(tasks, l.id)
        /\ execs[l.id] = 0

\* a resume run has been through its loop and passed a record over
C27_Witness ==
    /\ PassedOver # {}
    /\ pc \in {"wait", "report"}

\* --------------------------------------------------------------- C28
\* the positions of the records this process loaded in the downloading state
LoadedDownloading == {k \in 1..Len(atLoad) : atLoad[k].status = "downloading"}

\* C28: a record a resume run loaded with status downloading is not returned by
\* getPendingLessons, is not enqueued and no executor runs for it; through the
\* whole run its status and attempts stay as loaded.
C28_StuckDownloading ==
    /\ [](proc = "resume" =>
            \A k \in LoadedDownloading :
                /\ k <= Len(lessons)
                /\ lessons[k].id = atLoad[k].id
                /\ lessons[k].status = "downloading"
                /\ \A j \in 1..Len(pending) : pending[j].id # lessons[k].id
                /\ ~HasTask(tasks, lessons[k].id)
                /\ execs[lessons[k].id] = 0)
    /\ [][(proc = "resume" /\ proc' = "resume")
          => \A k \in LoadedDownloading : lessons'[k].attempts = lessons[k].attempts]_vars

\* a resume run over a ledger with a record left downloading has ended
C28_Witness ==
    /\ proc = "resume" /\ pc = "ended"
    /\ LoadedDownloading # {}

\* --------------------------------------------------------------- C29
\* getStats(): total and the four counters it reports
CountStatus(ls, st) == Cardinality({k \in 1..Len(ls) : ls[k].status = st})
GetStats(ls) ==
    [total |-> Len(ls),
     completed |-> CountStatus(ls, "completed"),
     failed |-> CountStatus(ls, "failed"),
     pending |-> CountStatus(ls, "pending"),
     skipped |-> CountStatus(ls, "skipped")]

\* C29: whenever no executor invocation is in flight (the queue is idle, right
\* after a load included), getStats() accounts for every record:
\* total = completed + failed + pending + skipped.
C29_StatsAccountForAll ==
    (proc # "none" /\ pc # "start" /\ lessonsOk /\ QueueIdle(tasks)) =>
        LET st == GetStats(lessons) IN
        st.total = st.completed + st.failed + st.pending + st.skipped

\* --------------------------------------------------------------- C30
\* C30: overlapping persists are safe: in a download run past its first save,
\* once every write has finished and no mutation waits for its timer, the state
\* file is one complete serialization of the ledger as it is in memory.
C30_OverlappingSavesSafe ==
    (/\ proc = "download" /\ pc \in {"loop", "dispatch", "wait", "report"}
     /\ writes = <<>> /\ ~saveTimer /\ lessonsOk)
    => disk = Named(Doc(lessons), courseName)
====
